---- MODULE Spec2Model ----
(***************************************************************************)
(* A model of model_zoo/gem_model.py: the GeoGNN encoder (GeoGNNModel,     *)
(* GeoGNNBlock) and the multi-task pretraining head (GeoPredModel).        *)
(*                                                                         *)
(* Tensors are abstracted: a representation or a loss is an integer, the   *)
(* prediction heads and criterions of the framework are one fixed integer  *)
(* function, and the transcendental functions of the loss weighting are    *)
(* tabulated in thousandths.  What is modelled exactly is the wiring: the  *)
(* configuration keys each constructor looks up, the feed_dict keys and    *)
(* the representation each loss evaluation receives, the angle binning,    *)
(* the coefficient index of each task, and the data flow between blocks.   *)
(***************************************************************************)
EXTENDS Integers, Sequences, FiniteSets, TLC

VARIABLES
    model_config,     \* argument of the last GeoPredModel(...) call
    pred_state,       \* "none" | "ok" | "KeyError"
    key_error,        \* the key the constructor failed on, "" if none
    attrs,            \* attributes (heads, criterions) the constructor set
    pretrain_tasks,   \* self.pretrain_tasks
    Bar_vocab,        \* self.Bar_vocab, 0 when the attribute is not set
    Dar_vocab,        \* self.Dar_vocab, 0 when the attribute is not set
    coefs,            \* self.coefs, a sequence; coefs[i + 1] is index i
    graph_dict,       \* arguments of the last forward call
    feed_dict,
    return_subloss,
    calls,            \* the _get_*_loss evaluations of the last forward
    sub_losses,       \* the ordered mapping sub_losses of the last forward
    weighted,         \* one record per iteration of the weighting loop
    ret,              \* what the last forward returned
    loss_call,        \* the last direct _get_Bar_loss or _get_Dar_loss call
    enc_config,       \* argument of the GeoGNNModel(...) call
    encoder,          \* the GeoGNNModel object
    enc_graphs,       \* arguments of the last GeoGNNModel.forward call
    enc_out           \* what that call computed and returned

predVars == <<model_config, pred_state, key_error, attrs, pretrain_tasks,
              Bar_vocab, Dar_vocab, coefs>>
fwdVars ==
    <<graph_dict, feed_dict, return_subloss, calls, sub_losses, weighted, ret>>
angleVars == <<loss_call>>
encVars == <<enc_config, encoder, enc_graphs, enc_out>>
vars == <<predVars, fwdVars, angleVars, encVars>>

-----------------------------------------------------------------------------
(* Bounds of the model *)

\* a coefficient holds its initial value 0 or the trained value MaxCoef
MaxCoef == 1
\* every feed_dict and graph_dict entry ranges over 0 .. MaxFeed
MaxFeed == 1
\* Bar_vocab and Dar_vocab range over 1 .. MaxVocab
MaxVocab == 3
\* angles are multiples of pi / AngleDen ...
AngleDen == 4
\* ... from -MaxAngle to MaxAngle units
MaxAngle == 8

\* shape=[8] of the coefs parameter
CoefsLen == 8

\* embed_dim of a configuration ranges over 1 .. MaxEmbed
MaxEmbed == 2
\* layer_num of a configuration ranges over 0 .. MaxLayer
MaxLayer == 2
\* a graph has 1 .. MaxRows nodes and 0 .. MaxRows edges
MaxRows == 2

\* the defaults of model_config.get: embed_dim, layer_num and dropout_rate
\* (in percent)
DefaultEmbedDim == 32
DefaultLayerNum == 8
DefaultDropoutRate == 20

-----------------------------------------------------------------------------
(* Helpers *)

Abs(x) == IF x < 0 THEN -x ELSE x

RECURSIVE SumSeq(_)
SumSeq(s) == IF s = <<>> THEN 0 ELSE Head(s) + SumSeq(Tail(s))

Range(s) == {s[i] : i \in 1..Len(s)}

\* the order in which forward tests the tags
TaskOrder == <<"Cm", "Fg", "Bar", "Dar", "Blr", "Adc", "Cl">>
Tags == Range(TaskOrder)

LossName(tag) == tag \o "_loss"

ConfKey(k) == k \o "_conf_cl_1"

-----------------------------------------------------------------------------
(* GeoPredModel.__init__: one head object is constructed per run *)

BaseKeys == {"hidden_size", "dropout_rate", "act", "pretrain_tasks"}

\* the configuration field of each task
VocabKey(tag) == IF tag = "Fg" THEN "Fg_size" ELSE tag \o "_vocab"

ConfigKeys == BaseKeys \cup {VocabKey(t) : t \in Tags}

\* a zero tensor of shape [8], the initial value of self.coefs
ZeroCoefs == [i \in 1..CoefsLen |-> 0]

\* the keys __init__ looks up in model_config (or in its pretrain_tasks
\* entry), in the order of the code; the Fg_size lookup is unconditional
InitLookups(tasks) ==
    <<"hidden_size", "dropout_rate", "act", "pretrain_tasks">>
    \o (IF "Cm" \in tasks THEN <<"Cm_vocab">> ELSE <<>>)
    \o <<"Fg_size">>
    \o (IF "Bar" \in tasks THEN <<"Bar_vocab">> ELSE <<>>)
    \o (IF "Dar" \in tasks THEN <<"Dar_vocab">> ELSE <<>>)
    \o (IF "Blr" \in tasks THEN <<"Blr_vocab">> ELSE <<>>)
    \o (IF "Adc" \in tasks THEN <<"Adc_vocab">> ELSE <<>>)
    \o (IF "Cl" \in tasks THEN <<"Cl_vocab">> ELSE <<>>)

\* the attributes __init__ sets for the heads and their criterions
InitAttrs(tasks) ==
    (IF "Cm" \in tasks THEN {"Cm_linear", "Cm_loss"} ELSE {})
    \cup {"Fg_linear", "Fg_loss"}
    \cup (IF "Bar" \in tasks
          THEN {"Bar_mlp_1", "Bar_mlp_2", "Bar_loss"} ELSE {})
    \cup (IF "Dar" \in tasks
          THEN {"Dar_mlp1", "Dar_loss", "Dar_mlp2", "Dar_loss_extra"}
          ELSE {})
    \cup (IF "Blr" \in tasks THEN {"Blr_mlp", "Blr_loss"} ELSE {})
    \cup (IF "Adc" \in tasks THEN {"Adc_mlp", "Adc_loss"} ELSE {})
    \cup (IF "Cl" \in tasks THEN {"Cl_linear", "Cl_loss"} ELSE {})

\* the first key of a lookup sequence that the mapping does not hold
RECURSIVE FirstMissing(_, _)
FirstMissing(lookups, keys) ==
    IF lookups = <<>> THEN ""
    ELSE IF Head(lookups) \notin keys THEN Head(lookups)
    ELSE FirstMissing(Tail(lookups), keys)

\* model_config['pretrain_tasks'] is read at line 185; when the key is
\* missing the lookups stop there and no task test is evaluated
KeyErrorOf(cfg) ==
    IF "pretrain_tasks" \in cfg.keys
    THEN FirstMissing(InitLookups(cfg.pretrain_tasks), cfg.keys)
    ELSE FirstMissing(InitLookups({}), cfg.keys)

NoCall == [fn |-> "", angles |-> <<>>, ids |-> <<>>, classes |-> <<>>]
NoRet == [arity |-> 0, loss |-> 0, sub_losses |-> <<>>, coefs |-> <<>>]

\* no forward and no loss method has run on the new object
ResetForward ==
    /\ graph_dict' = <<>>
    /\ feed_dict' = <<>>
    /\ return_subloss' = FALSE
    /\ calls' = <<>>
    /\ sub_losses' = <<>>
    /\ weighted' = <<>>
    /\ ret' = NoRet
    /\ loss_call' = NoCall

GeoPredModel_init(cfg) ==
    /\ pred_state = "none"
    /\ model_config' = cfg
    /\ key_error' = KeyErrorOf(cfg)
    /\ IF KeyErrorOf(cfg) = ""
       THEN /\ pred_state' = "ok"
            /\ attrs' = InitAttrs(cfg.pretrain_tasks)
            /\ pretrain_tasks' = cfg.pretrain_tasks
            /\ Bar_vocab' = (IF "Bar" \in cfg.pretrain_tasks
                             THEN cfg.Bar_vocab ELSE 0)
            /\ Dar_vocab' = (IF "Dar" \in cfg.pretrain_tasks
                             THEN cfg.Dar_vocab ELSE 0)
       ELSE /\ pred_state' = "KeyError"
            /\ attrs' = {}
            /\ pretrain_tasks' = {}
            /\ Bar_vocab' = 0
            /\ Dar_vocab' = 0
    /\ coefs' = ZeroCoefs
    /\ ResetForward
    /\ UNCHANGED encVars

\* the fields of exactly the active tasks, next to the base keys
ExactKeys(tasks) == BaseKeys \cup {VocabKey(t) : t \in tasks}

\* the key sets the constructor is called with, for a task set: the exact
\* keys, the exact keys with Fg_size, and these less one key
ConfigsOf(tasks) ==
    {ExactKeys(tasks), ExactKeys(tasks) \cup {"Fg_size"}}
    \cup {(ExactKeys(tasks) \cup {"Fg_size"}) \ {k} : k \in ConfigKeys}

InOrder(ts) == SelectSeq(TaskOrder, LAMBDA t : t \in ts)

Reverse(s) == [i \in 1..Len(s) |-> s[Len(s) + 1 - i]]

\* the lists a task set is written as: in the order of the task tests of
\* forward, and in the opposite order
TagLists(ts) == {InOrder(ts), Reverse(InOrder(ts))}

\* pretrain_tasks is the set of tags `in` finds in the list tag_list
Configs(vocabs) ==
    UNION {{[keys |-> ks, pretrain_tasks |-> Range(tl), tag_list |-> tl,
             Bar_vocab |-> bv, Dar_vocab |-> dv] :
                ks \in ConfigsOf(ts), tl \in TagLists(ts),
                bv \in vocabs, dv \in vocabs} :
           ts \in SUBSET Tags}

-----------------------------------------------------------------------------
(* The framework's tensor operations, as integer functions *)

\* paddle.gather(node_repr, index)
Gather(repr, index) == repr + index

\* a prediction head followed by its criterion (MLP, CrossEntropyLoss,
\* BCEWithLogitsLoss, SmoothL1Loss)
Criterion(pred, label) == Abs(pred - label)

\* WeightedNTXentLoss_func(x1, x2, mols, rms): x1 is the anchor view
WeightedNTXentLoss_func(x1, x2, mols, rms) == Abs(2 * x1 - x2) + mols + rms

\* a cast that rounds to the nearest integer
CastInt64Round(num, den) == (2 * num + den) \div (2 * den)

\* paddle.cast(x, 'int64') of the quotient num / den: the fraction is cut
\* off, which rounds toward zero
CastInt64(num, den) ==
    IF num >= 0 THEN num \div den ELSE -((-num) \div den)

\* the angle a is angle * pi / AngleDen, so a / np.pi * vocab is
\* angle * vocab / AngleDen
AngleDistId(angle, vocab) == CastInt64(angle * vocab, AngleDen)

-----------------------------------------------------------------------------
(* The _get_*_loss methods *)

get_Cm_loss(Cm_node_i, Cm_context_id, node_repr) ==
    Criterion(Gather(node_repr, Cm_node_i), Cm_context_id)

\* reads its three labels from feed_dict under fixed keys
FgKeys == <<"Fg_morgan", "Fg_daylight", "Fg_maccs">>

get_Fg_loss(fd, graph_repr) ==
    Criterion(graph_repr, fd[FgKeys[1]] + fd[FgKeys[2]] + fd[FgKeys[3]])

Bar_dist_id(Ba_bond_angle) == AngleDistId(Ba_bond_angle, Bar_vocab)

get_Bar_loss(Ba_node_i, Ba_node_j, Ba_node_k, Ba_bond_angle, node_repr) ==
    Criterion(Gather(node_repr, Ba_node_i) + 2 * Gather(node_repr, Ba_node_j)
                + Gather(node_repr, Ba_node_k),
              Bar_dist_id(Ba_bond_angle))

Dar_dist_id(Da_bond_angle) == AngleDistId(Da_bond_angle, Dar_vocab)

Dar_dist_id_extra(Da_bond_angle_extra) ==
    AngleDistId(Da_bond_angle_extra, Dar_vocab)

\* a[1..5] are the primary quadruple and its angle, a[6..10] the extra ones
get_Dar_loss(a, node_repr) ==
    LET loss ==
            Criterion(Gather(node_repr, a[1]) + 2 * Gather(node_repr, a[2])
                        + 2 * Gather(node_repr, a[3])
                        + Gather(node_repr, a[4]),
                      Dar_dist_id(a[5]))
        loss_extra ==
            Criterion(Gather(node_repr, a[6]) + 2 * Gather(node_repr, a[7])
                        + 2 * Gather(node_repr, a[8])
                        + Gather(node_repr, a[9]),
                      Dar_dist_id_extra(a[10]))
    IN  loss + loss_extra

get_Blr_loss(Bl_node_i, Bl_node_j, Bl_bond_length, node_repr) ==
    Criterion(Gather(node_repr, Bl_node_i) + Gather(node_repr, Bl_node_j),
              Bl_bond_length)

get_Adc_loss(Ad_node_i, Ad_node_j, Ad_atom_dist, node_repr) ==
    Criterion(Gather(node_repr, Ad_node_i) + Gather(node_repr, Ad_node_j),
              Ad_atom_dist)

get_Cl_loss(x1, x2, mols, rms) == WeightedNTXentLoss_func(x1, x2, mols, rms)

-----------------------------------------------------------------------------
(* GeoPredModel.forward: the four encoder runs *)

\* each run: the three graph_dict keys it reads and the names its
\* node, edge and graph outputs are bound to
EncoderRuns ==
    << [graphs |-> <<"atom_bond_graph", "bond_angle_graph",
                     "dihes_angle_graph">>,
        outs |-> <<"node_repr", "edge_repr", "graph_repr">>],
       [graphs |-> <<"atom_bond_graph_conf_cl_1",
                     "bond_angle_graph_conf_cl_1",
                     "dihes_angle_graph_conf_cl_1">>,
        outs |-> <<"node_repr_conf_cl_1", "edge_repr_conf_cl_1",
                   "graph_repr_conf_cl_1">>],
       [graphs |-> <<"masked_atom_bond_graph", "masked_bond_angle_graph",
                     "masked_dihes_angle_graph">>,
        outs |-> <<"masked_node_repr", "masked_edge_repr",
                   "masked_graph_repr">>],
       [graphs |-> <<"masked_atom_bond_graph_conf_cl_1",
                     "masked_bond_angle_graph_conf_cl_1",
                     "masked_dihes_angle_graph_conf_cl_1">>,
        outs |-> <<"masked_node_repr_conf_cl_1",
                   "masked_edge_repr_conf_cl_1",
                   "masked_graph_repr_conf_cl_1">>] >>

GraphKeys == UNION {Range(EncoderRuns[i].graphs) : i \in 1..Len(EncoderRuns)}

ReprNames == UNION {Range(EncoderRuns[i].outs) : i \in 1..Len(EncoderRuns)}

\* the run that binds each representation name, and the output it is
RunOf ==
    [name \in ReprNames |->
        CHOOSE i \in 1..Len(EncoderRuns) : name \in Range(EncoderRuns[i].outs)]

OutOf ==
    [name \in ReprNames |->
        CHOOSE k \in 1..3 : EncoderRuns[RunOf[name]].outs[k] = name]

\* compound_encoder.forward as an integer function of its three graphs;
\* the node, edge and graph outputs of one run differ
ReprValue(gd, name) ==
    LET run == EncoderRuns[RunOf[name]]
    IN  4 * gd[run.graphs[1]] + 2 * gd[run.graphs[2]] + gd[run.graphs[3]]
          + (OutOf[name] - 1)

-----------------------------------------------------------------------------
(* GeoPredModel.forward: the loss evaluations of each task, in code order *)

Call(task, fn, keys, reprs) ==
    [task |-> task, fn |-> fn, keys |-> keys, reprs |-> reprs]

Conf(keys) == [i \in 1..Len(keys) |-> ConfKey(keys[i])]

CmKeys == <<"Cm_node_i", "Cm_context_id">>

CmCalls ==
    << Call("Cm", "_get_Cm_loss", CmKeys, <<"node_repr">>),
       Call("Cm", "_get_Cm_loss", CmKeys, <<"masked_node_repr">>),
       Call("Cm", "_get_Cm_loss", Conf(CmKeys), <<"node_repr_conf_cl_1">>),
       Call("Cm", "_get_Cm_loss", Conf(CmKeys),
            <<"masked_node_repr_conf_cl_1">>) >>

\* forward hands the whole feed_dict to _get_Fg_loss, which reads FgKeys
FgCalls ==
    << Call("Fg", "_get_Fg_loss", FgKeys, <<"graph_repr">>),
       Call("Fg", "_get_Fg_loss", FgKeys, <<"masked_graph_repr">>),
       Call("Fg", "_get_Fg_loss", FgKeys, <<"graph_repr_conf_cl_1">>),
       Call("Fg", "_get_Fg_loss", FgKeys,
            <<"masked_graph_repr_conf_cl_1">>) >>

BarKeys == <<"Ba_node_i", "Ba_node_j", "Ba_node_k", "Ba_bond_angle">>

\* the masked canonical evaluation repeats the unmasked representation
BarCallsRepeated ==
    << Call("Bar", "_get_Bar_loss", BarKeys, <<"node_repr">>),
       Call("Bar", "_get_Bar_loss", BarKeys, <<"node_repr">>),
       Call("Bar", "_get_Bar_loss", Conf(BarKeys),
            <<"node_repr_conf_cl_1">>),
       Call("Bar", "_get_Bar_loss", Conf(BarKeys),
            <<"masked_node_repr_conf_cl_1">>) >>

BarCalls ==
    << Call("Bar", "_get_Bar_loss", BarKeys, <<"node_repr">>),
       Call("Bar", "_get_Bar_loss", BarKeys, <<"masked_node_repr">>),
       Call("Bar", "_get_Bar_loss", Conf(BarKeys),
            <<"node_repr_conf_cl_1">>),
       Call("Bar", "_get_Bar_loss", Conf(BarKeys),
            <<"masked_node_repr_conf_cl_1">>) >>

DarKeys ==
    <<"Da_node_i", "Da_node_j", "Da_node_k", "Da_node_l", "Da_bond_angle",
      "Da_node_i_extra", "Da_node_j_extra", "Da_node_k_extra",
      "Da_node_l_extra", "Da_bond_angle_extra">>

DarCalls ==
    << Call("Dar", "_get_Dar_loss", DarKeys, <<"node_repr">>),
       Call("Dar", "_get_Dar_loss", DarKeys, <<"masked_node_repr">>),
       Call("Dar", "_get_Dar_loss", Conf(DarKeys),
            <<"node_repr_conf_cl_1">>),
       Call("Dar", "_get_Dar_loss", Conf(DarKeys),
            <<"masked_node_repr_conf_cl_1">>) >>

BlrKeys == <<"Bl_node_i", "Bl_node_j", "Bl_bond_length">>

\* the augmented unmasked evaluation reads the canonical keys
BlrCallsCanonicalKeys ==
    << Call("Blr", "_get_Blr_loss", BlrKeys, <<"node_repr">>),
       Call("Blr", "_get_Blr_loss", BlrKeys, <<"masked_node_repr">>),
       Call("Blr", "_get_Blr_loss", BlrKeys, <<"node_repr_conf_cl_1">>),
       Call("Blr", "_get_Blr_loss", Conf(BlrKeys),
            <<"masked_node_repr_conf_cl_1">>) >>

BlrCalls ==
    << Call("Blr", "_get_Blr_loss", BlrKeys, <<"node_repr">>),
       Call("Blr", "_get_Blr_loss", BlrKeys, <<"masked_node_repr">>),
       Call("Blr", "_get_Blr_loss", Conf(BlrKeys),
            <<"node_repr_conf_cl_1">>),
       Call("Blr", "_get_Blr_loss", Conf(BlrKeys),
            <<"masked_node_repr_conf_cl_1">>) >>

AdcKeys == <<"Ad_node_i", "Ad_node_j", "Ad_atom_dist">>

AdcCalls ==
    << Call("Adc", "_get_Adc_loss", AdcKeys, <<"node_repr">>),
       Call("Adc", "_get_Adc_loss", AdcKeys, <<"masked_node_repr">>),
       Call("Adc", "_get_Adc_loss", Conf(AdcKeys),
            <<"node_repr_conf_cl_1">>),
       Call("Adc", "_get_Adc_loss", Conf(AdcKeys),
            <<"masked_node_repr_conf_cl_1">>) >>

ClKeys == <<"fp_score", "rms">>

\* the second evaluation is the first with its arguments swapped
ClCallsSwapped ==
    << Call("Cl", "_get_Cl_loss", ClKeys,
            <<"graph_repr_conf_cl_1", "masked_graph_repr">>),
       Call("Cl", "_get_Cl_loss", ClKeys,
            <<"masked_graph_repr", "graph_repr_conf_cl_1">>) >>

\* x1 and x2 are F.normalize of the two named graph representations
ClCalls ==
    << Call("Cl", "_get_Cl_loss", ClKeys,
            <<"graph_repr_conf_cl_1", "masked_graph_repr">>),
       Call("Cl", "_get_Cl_loss", ClKeys,
            <<"graph_repr", "masked_graph_repr_conf_cl_1">>) >>

TaskCalls(tag) ==
    CASE tag = "Cm" -> CmCalls
      [] tag = "Fg" -> FgCalls
      [] tag = "Bar" -> BarCalls
      [] tag = "Dar" -> DarCalls
      [] tag = "Blr" -> BlrCalls
      [] tag = "Adc" -> AdcCalls
      [] tag = "Cl" -> ClCalls

\* every key forward can read from feed_dict
FeedKeys ==
    UNION {Range(TaskCalls(t)[i].keys) :
             <<t, i>> \in {<<u, j>> \in Tags \X (1..4) :
                             j <= Len(TaskCalls(u))}}

\* the value of one evaluation, and the bin ids it used as labels
Evaluate(c, fd, gd) ==
    LET a == [i \in 1..Len(c.keys) |-> fd[c.keys[i]]]
        r == [i \in 1..Len(c.reprs) |-> ReprValue(gd, c.reprs[i])]
    IN  CASE c.fn = "_get_Cm_loss" ->
                [value |-> get_Cm_loss(a[1], a[2], r[1]), ids |-> <<>>]
          [] c.fn = "_get_Fg_loss" ->
                [value |-> get_Fg_loss(fd, r[1]), ids |-> <<>>]
          [] c.fn = "_get_Bar_loss" ->
                [value |-> get_Bar_loss(a[1], a[2], a[3], a[4], r[1]),
                 ids |-> <<Bar_dist_id(a[4])>>]
          [] c.fn = "_get_Dar_loss" ->
                [value |-> get_Dar_loss(a, r[1]),
                 ids |-> <<Dar_dist_id(a[5]), Dar_dist_id_extra(a[10])>>]
          [] c.fn = "_get_Blr_loss" ->
                [value |-> get_Blr_loss(a[1], a[2], a[3], r[1]),
                 ids |-> <<>>]
          [] c.fn = "_get_Adc_loss" ->
                [value |-> get_Adc_loss(a[1], a[2], a[3], r[1]),
                 ids |-> <<>>]
          [] c.fn = "_get_Cl_loss" ->
                [value |-> get_Cl_loss(r[1], r[2], a[1], a[2]),
                 ids |-> <<>>]

Evaluated(c, fd, gd) ==
    LET e == Evaluate(c, fd, gd)
    IN  [task |-> c.task, fn |-> c.fn, keys |-> c.keys, reprs |-> c.reprs,
         ids |-> e.ids, value |-> e.value]

\* the tasks are evaluated in the order of the configured list
RECURSIVE CallsInListOrder(_, _, _, _, _)
CallsInListOrder(list, from, tasks, fd, gd) ==
    IF from > Len(list) THEN <<>>
    ELSE (IF list[from] \in tasks
          THEN [i \in 1..Len(TaskCalls(list[from])) |->
                   Evaluated(TaskCalls(list[from])[i], fd, gd)]
          ELSE <<>>)
         \o CallsInListOrder(list, from + 1, tasks, fd, gd)

ForwardCallsListOrder(order, from, tasks, fd, gd) ==
    CallsInListOrder(model_config.tag_list, from, tasks, fd, gd)

\* the evaluations of the tasks order[from..], each tested with
\* `if tag in self.pretrain_tasks`
RECURSIVE ForwardCalls(_, _, _, _, _)
ForwardCalls(order, from, tasks, fd, gd) ==
    IF from > Len(order) THEN <<>>
    ELSE (IF order[from] \in tasks
          THEN [i \in 1..Len(TaskCalls(order[from])) |->
                   Evaluated(TaskCalls(order[from])[i], fd, gd)]
          ELSE <<>>)
         \o ForwardCalls(order, from + 1, tasks, fd, gd)

\* sub_losses[name] is assigned the first evaluation of the task and
\* += every later one; keys are inserted in the order of the task tests
RECURSIVE SubLossesOf(_, _)
SubLossesOf(cs, from) ==
    IF from > Len(cs) THEN <<>>
    ELSE LET name == LossName(cs[from].task)
             rest == SubLossesOf(cs, from + 1)
         IN  IF rest # <<>> /\ rest[1].name = name
             THEN <<[name |-> name, value |-> cs[from].value + rest[1].value]>>
                  \o Tail(rest)
             ELSE <<[name |-> name, value |-> cs[from].value]>> \o rest

-----------------------------------------------------------------------------
(* GeoPredModel.forward: the weighting loop and the return value *)

\* paddle.exp(x) in thousandths, x an integer
ExpMilli(x) ==
    CASE x = -6 -> 2
      [] x = -5 -> 7
      [] x = -4 -> 18
      [] x = -3 -> 50
      [] x = -2 -> 135
      [] x = -1 -> 368
      [] x = 0 -> 1000
      [] x = 1 -> 2718
      [] x = 2 -> 7389
      [] x = 3 -> 20086

\* paddle.log(y) in thousandths, y in thousandths
LogMilli(y) ==
    CASE y = 1050 -> 49
      [] y = 1135 -> 127
      [] y = 1368 -> 313
      [] y = 2000 -> 693
      [] y = 3718 -> 1313
      [] y = 8389 -> 2127
      [] y = 21086 -> 3049

\* self.coefs[cnt]
CoefAt(cs, cnt) == cs[cnt + 1]

\* the factor 2 of the exponent is lost
PrecisionNoDouble(coef) == ExpMilli(-coef) \div 2

\* precision = paddle.exp(-self.coefs[cnt] * 2) / 2.0
Precision(coef) == ExpMilli(-coef * 2) \div 2

\* paddle.log(paddle.exp(self.coefs[cnt]) + 1)
LogTerm(coef) == LogMilli(ExpMilli(coef) + 1000)

\* cnt is never incremented: every iteration reads the same coefficient
WeightingLoopStuck(sl, cs, cnt) ==
    [k \in 1..Len(sl) |->
        [name |-> sl[k].name,
         index |-> cnt,
         term |-> (ExpMilli(-CoefAt(cs, cnt) * 2) \div 2) * sl[k].value
                    + LogMilli(ExpMilli(CoefAt(cs, cnt)) + 1000)]]

\* the iterations of `for name in sub_losses` from the one numbered cnt:
\* the name, the coefficient index read and the amount added to loss
RECURSIVE WeightingLoop(_, _, _)
WeightingLoop(sl, cs, cnt) ==
    IF cnt >= Len(sl) THEN <<>>
    ELSE <<[name |-> sl[cnt + 1].name,
            index |-> cnt,
            term |-> Precision(CoefAt(cs, cnt)) * sl[cnt + 1].value
                       + LogTerm(CoefAt(cs, cnt))]>>
         \o WeightingLoop(sl, cs, cnt + 1)

\* loss, in thousandths
TotalLoss(w) == SumSeq([i \in 1..Len(w) |-> w[i].term])

\* forward as a function of the model and its arguments
ForwardResult(tasks, cs, gd, fd) ==
    LET c == ForwardCalls(TaskOrder, 1, tasks, fd, gd)
        sl == SubLossesOf(c, 1)
        w == WeightingLoop(sl, cs, 0)
    IN  [calls |-> c, sub_losses |-> sl, weighted |-> w,
         loss |-> TotalLoss(w)]

\* return_subloss is ignored
ReturnValueAlways(res, cs, flag) ==
    [arity |-> 3, loss |-> res.loss, sub_losses |-> res.sub_losses,
     coefs |-> cs]

ReturnValue(res, cs, flag) ==
    IF flag
    THEN [arity |-> 3, loss |-> res.loss, sub_losses |-> res.sub_losses,
          coefs |-> cs]
    ELSE [arity |-> 1, loss |-> res.loss, sub_losses |-> <<>>,
          coefs |-> <<>>]

GeoPredModel_forward(gd, fd, flag) ==
    /\ pred_state = "ok"
    /\ LET res == ForwardResult(pretrain_tasks, coefs, gd, fd)
       IN  /\ calls' = res.calls
           /\ sub_losses' = res.sub_losses
           /\ weighted' = res.weighted
           /\ ret' = ReturnValue(res, coefs, flag)
    /\ graph_dict' = gd
    /\ feed_dict' = fd
    /\ return_subloss' = flag
    /\ UNCHANGED <<predVars, angleVars, encVars>>

\* the batches forward is called with: x under the canonical keys, y under
\* the _conf_cl_1 keys; masking changes a graph's features
ConfFeedKeys == FeedKeys \cap {ConfKey(k) : k \in FeedKeys}

FeedDictOf(x, y) ==
    [k \in FeedKeys |-> IF k \in ConfFeedKeys THEN y ELSE x]

ConfGraphKeys == GraphKeys \cap {ConfKey(k) : k \in GraphKeys}

MaskedGraphKeys == GraphKeys \cap {"masked_" \o k : k \in GraphKeys}

GraphDictOf(x, y) ==
    [k \in GraphKeys |->
        (IF k \in ConfGraphKeys THEN y ELSE x)
        + (IF k \in MaskedGraphKeys THEN MaxFeed + 1 ELSE 0)]

-----------------------------------------------------------------------------
(* The optimizer: coefs is a trainable parameter.  A step of an earlier
   training pass moves an entry that received a gradient in that pass, which
   is one the weighting loop read: one of the first n entries for n active
   tasks.  The other entries keep their initial value. *)

CoefVals == {0, MaxCoef}

NumActive == Cardinality(pretrain_tasks \cap Tags)

OptimizerStep(i, v) ==
    /\ pred_state = "ok"
    /\ ret.arity = 0
    /\ i < NumActive
    /\ coefs' = [coefs EXCEPT ![i + 1] = v]
    /\ UNCHANGED <<model_config, pred_state, key_error, attrs,
                   pretrain_tasks, Bar_vocab, Dar_vocab, fwdVars, angleVars,
                   encVars>>

-----------------------------------------------------------------------------
(* Direct evaluations of the two angle losses *)

Angles == (-MaxAngle)..MaxAngle

\* the head has one output per bin only
OutSizeNoMargin(vocab) == vocab

\* out_size of Bar_mlp_2 and of Dar_mlp2: the number of classes of the head
OutSize(vocab) == vocab + 2

\* the labels CrossEntropyLoss accepts for a prediction of out_size classes
ClassIndices(out_size) == 0..(out_size - 1)

GeoPredModel_get_Bar_loss(Ba_bond_angle) ==
    /\ pred_state = "ok"
    /\ "Bar" \in pretrain_tasks
    /\ loss_call' = [fn |-> "_get_Bar_loss", angles |-> <<Ba_bond_angle>>,
                     ids |-> <<Bar_dist_id(Ba_bond_angle)>>,
                     classes |-> <<OutSize(Bar_vocab)>>]
    /\ UNCHANGED <<predVars, fwdVars, encVars>>

GeoPredModel_get_Dar_loss(Da_bond_angle, Da_bond_angle_extra) ==
    /\ pred_state = "ok"
    /\ "Dar" \in pretrain_tasks
    /\ loss_call' = [fn |-> "_get_Dar_loss",
                     angles |-> <<Da_bond_angle, Da_bond_angle_extra>>,
                     ids |-> <<Dar_dist_id(Da_bond_angle),
                               Dar_dist_id_extra(Da_bond_angle_extra)>>,
                     classes |-> <<OutSize(Dar_vocab), OutSize(Dar_vocab)>>]
    /\ UNCHANGED <<predVars, fwdVars, encVars>>

-----------------------------------------------------------------------------
(* Tensors of the encoder: a row count, a width, the expression that
   produced it, and whether every addition in it had operands of one shape *)

Tensor(rows, width, id) ==
    [rows |-> rows, width |-> width, id |-> id, wellformed |-> TRUE]

Add(a, b) ==
    [rows |-> a.rows, width |-> a.width,
     id |-> "(" \o a.id \o " + " \o b.id \o ")",
     wellformed |-> /\ a.wellformed
                    /\ b.wellformed
                    /\ a.rows = b.rows
                    /\ a.width = b.width]

\* AtomEmbedding, BondEmbedding, BondFloatRBF, BondAngleFloatRBF: one row
\* of width embed_dim per row of the feature table
Embedding(layer, embed_dim, rows, feat) ==
    Tensor(rows, embed_dim, layer \o "(" \o feat \o ")")

\* GIN(embed_dim): a node state per node of the graph and an edge state per
\* row of edge_hidden, both of width embed_dim
GIN(embed_dim, name, graph, node_hidden, edge_hidden) ==
    [node_out |-> Tensor(graph.num_nodes, embed_dim, name \o ".node_out"),
     edge_out |-> Tensor(edge_hidden.rows, embed_dim, name \o ".edge_out")]

\* MeanPool and pgl.nn.GraphPool: one row per graph of the batch
GraphPool(readout, graph, node_repr) ==
    Tensor(1, node_repr.width,
           readout \o "_pool(" \o graph.name \o ", " \o node_repr.id \o ")")

-----------------------------------------------------------------------------
(* GeoGNNBlock *)

GeoGNNBlock(embed_dim, dropout_rate, last_act) ==
    [embed_dim |-> embed_dim, dropout_rate |-> dropout_rate,
     last_act |-> last_act]

\* the outputs are returned in the wrong order
GeoGNNBlock_forwardSwapped(self, name, graph, node_hidden, edge_hidden) ==
    LET out == GIN(self.embed_dim, name, graph, node_hidden, edge_hidden)
    IN  [node_out |-> Add(out.edge_out, edge_hidden),
         edge_out |-> Add(out.node_out, node_hidden)]

\* norm, graph_norm, act and dropout keep the shape of their input; the
\* residual add closes the block
GeoGNNBlock_forward(self, name, graph, node_hidden, edge_hidden) ==
    LET out == GIN(self.embed_dim, name, graph, node_hidden, edge_hidden)
    IN  [node_out |-> Add(out.node_out, node_hidden),
         edge_out |-> Add(out.edge_out, edge_hidden)]

-----------------------------------------------------------------------------
(* GeoGNNModel.__init__ *)

OptionalEncKeys == {"embed_dim", "dropout_rate", "layer_num", "readout"}

\* the bond-angle feature list is not looked up
RequiredEncLookupsNoAngle ==
    <<"atom_names", "bond_names", "bond_float_names">>

RequiredEncLookups ==
    <<"atom_names", "bond_names", "bond_float_names",
      "bond_angle_float_names">>

EncKeys == OptionalEncKeys \cup Range(RequiredEncLookups)

\* model_config.get(key, default)
Get(cfg, key, default) == IF key \in cfg.keys THEN cfg[key] ELSE default

NoEncoder ==
    [state |-> "none", key_error |-> "", embed_dim |-> 0,
     dropout_rate |-> 0, layer_num |-> 0, readout |-> "",
     atom_bond_block_list |-> <<>>, bond_angle_block_list |-> <<>>,
     dihes_angle_list |-> <<>>]

\* the three block lists get one block per layer_id in range(layer_num),
\* with last_act = (layer_id != layer_num - 1)
BlockList(embed_dim, dropout_rate, layer_num) ==
    [k \in 1..layer_num |->
        GeoGNNBlock(embed_dim, dropout_rate, (k - 1) # layer_num - 1)]

GeoGNNModel_init(cfg) ==
    /\ encoder.state = "none"
    /\ enc_config' = cfg
    /\ LET embed_dim == Get(cfg, "embed_dim", DefaultEmbedDim)
           dropout_rate == Get(cfg, "dropout_rate", DefaultDropoutRate)
           layer_num == Get(cfg, "layer_num", DefaultLayerNum)
           readout == Get(cfg, "readout", "mean")
           missing == FirstMissing(RequiredEncLookups, cfg.keys)
       IN  encoder' =
              IF missing # ""
              THEN [NoEncoder EXCEPT !.state = "KeyError",
                                     !.key_error = missing]
              ELSE [state |-> "ok", key_error |-> "",
                    embed_dim |-> embed_dim,
                    dropout_rate |-> dropout_rate,
                    layer_num |-> layer_num,
                    readout |-> readout,
                    atom_bond_block_list |->
                        BlockList(embed_dim, dropout_rate, layer_num),
                    bond_angle_block_list |->
                        BlockList(embed_dim, dropout_rate, layer_num),
                    dihes_angle_list |->
                        BlockList(embed_dim, dropout_rate, layer_num)]
    /\ UNCHANGED <<enc_graphs, enc_out, predVars, fwdVars, angleVars>>

-----------------------------------------------------------------------------
(* GeoGNNModel.forward *)

\* layer_list[layer_id], as the name of the layer
At(list, layer_id) == list \o "[" \o ToString(layer_id) \o "]"

\* one block call: the block, its graph and the expressions of its inputs
BlockCall(list, layer_id, graph, node_hidden, edge_hidden) ==
    [list |-> list, layer_id |-> layer_id, graph |-> graph.name,
     node_hidden |-> node_hidden, edge_hidden |-> edge_hidden]

\* the body of `for layer_id in range(self.layer_num)` from layer_id on;
\* st holds the three hidden lists and the block calls made so far
RECURSIVE Layers(_, _, _, _)
Layers(self, g, layer_id, st) ==
    IF layer_id >= self.layer_num THEN st
    ELSE
    LET abg == g.atom_bond_graph
        bag == g.bond_angle_graph
        dag == g.dihes_angle_graph
        cur_edge_hidden ==
            Add(Embedding(At("bond_embedding_list", layer_id),
                          self.embed_dim, abg.num_edges,
                          "atom_bond_graph.edge_feat"),
                Embedding(At("bond_float_rbf_list", layer_id),
                          self.embed_dim, abg.num_edges,
                          "atom_bond_graph.edge_feat"))
        cur_angle_hidden ==
            Embedding(At("bond_angle_float_rbf_list", layer_id),
                      self.embed_dim, bag.num_edges,
                      "bond_angle_graph.edge_feat")
        cur_dihes_angle_hidden ==
            Embedding(At("dihes_angle_float_rbf_list", layer_id),
                      self.embed_dim, dag.num_edges,
                      "dihes_angle_graph.edge_feat")
        in1 == <<st.node_hidden_list[layer_id + 1],
                 st.edge_hidden_list[layer_id + 1]>>
        out1 == GeoGNNBlock_forward(
                    self.atom_bond_block_list[layer_id + 1],
                    At("atom_bond_block_list", layer_id), abg,
                    in1[1], in1[2])
        node_hidden == out1.node_out
        edge_hidden_1 == out1.edge_out
        in2 == <<Add(cur_edge_hidden, edge_hidden_1),
                 st.super_edge_hidden_list[layer_id + 1]>>
        out2 == GeoGNNBlock_forward(
                    self.bond_angle_block_list[layer_id + 1],
                    At("bond_angle_block_list", layer_id), bag,
                    in2[1], in2[2])
        edge_hidden == out2.node_out
        dihes_node_hidden_1 == out2.edge_out
        in3 == <<Add(cur_angle_hidden, dihes_node_hidden_1),
                 cur_dihes_angle_hidden>>
        out3 == GeoGNNBlock_forward(
                    self.dihes_angle_list[layer_id + 1],
                    At("dihes_angle_list", layer_id), dag,
                    in3[1], in3[2])
        dihes_node_hidden == out3.node_out
    IN  Layers(self, g, layer_id + 1,
               [node_hidden_list |->
                    Append(st.node_hidden_list, node_hidden),
                edge_hidden_list |->
                    Append(st.edge_hidden_list, edge_hidden),
                super_edge_hidden_list |->
                    Append(st.super_edge_hidden_list, dihes_node_hidden),
                block_calls |->
                    st.block_calls \o
                    << [call |-> BlockCall("atom_bond_block_list", layer_id,
                                           abg, in1[1], in1[2]),
                        node_out |-> out1.node_out,
                        edge_out |-> out1.edge_out],
                       [call |-> BlockCall("bond_angle_block_list", layer_id,
                                           bag, in2[1], in2[2]),
                        node_out |-> out2.node_out,
                        edge_out |-> out2.edge_out],
                       [call |-> BlockCall("dihes_angle_list", layer_id,
                                           dag, in3[1], in3[2]),
                        node_out |-> out3.node_out,
                        edge_out |-> out3.edge_out] >>])

\* the bond-length embedding is left out of the initial edge state
InitialHiddenNoRbf(self, g) ==
    [node_hidden_list |->
        <<Embedding("init_atom_embedding", self.embed_dim,
                    g.atom_bond_graph.num_nodes,
                    "atom_bond_graph.node_feat")>>,
     edge_hidden_list |->
        <<Embedding("init_bond_embedding", self.embed_dim,
                    g.atom_bond_graph.num_edges,
                    "atom_bond_graph.edge_feat")>>,
     super_edge_hidden_list |->
        <<Embedding("init_super_edge_embedding", self.embed_dim,
                    g.bond_angle_graph.num_edges,
                    "bond_angle_graph.edge_feat")>>,
     block_calls |-> <<>>]

\* the hidden states prior to message passing
InitialHidden(self, g) ==
    LET abg == g.atom_bond_graph
        bag == g.bond_angle_graph
        node_hidden ==
            Embedding("init_atom_embedding", self.embed_dim, abg.num_nodes,
                      "atom_bond_graph.node_feat")
        bond_embed ==
            Embedding("init_bond_embedding", self.embed_dim, abg.num_edges,
                      "atom_bond_graph.edge_feat")
        edge_hidden ==
            Add(bond_embed,
                Embedding("init_bond_float_rbf", self.embed_dim,
                          abg.num_edges, "atom_bond_graph.edge_feat"))
        super_edge_hidden ==
            Embedding("init_super_edge_embedding", self.embed_dim,
                      bag.num_edges, "bond_angle_graph.edge_feat")
    IN  [node_hidden_list |-> <<node_hidden>>,
         edge_hidden_list |-> <<edge_hidden>>,
         super_edge_hidden_list |-> <<super_edge_hidden>>,
         block_calls |-> <<>>]

\* the entry prior to message passing is returned
FirstEntry(list) == list[1]

Last(list) == list[Len(list)]

NoEncOut ==
    [called |-> FALSE, node_hidden_list |-> <<>>, edge_hidden_list |-> <<>>,
     super_edge_hidden_list |-> <<>>, block_calls |-> <<>>,
     node_repr |-> Tensor(0, 0, ""), edge_repr |-> Tensor(0, 0, ""),
     graph_repr |-> Tensor(0, 0, "")]

GeoGNNModel_forward(g) ==
    /\ encoder.state = "ok"
    /\ enc_graphs' = g
    /\ LET st == Layers(encoder, g, 0, InitialHidden(encoder, g))
           edge_repr == Last(st.edge_hidden_list)
           node_repr == Last(st.node_hidden_list)
           graph_repr ==
               GraphPool(encoder.readout, g.atom_bond_graph, node_repr)
       IN  enc_out' =
              [called |-> TRUE,
               node_hidden_list |-> st.node_hidden_list,
               edge_hidden_list |-> st.edge_hidden_list,
               super_edge_hidden_list |-> st.super_edge_hidden_list,
               block_calls |-> st.block_calls,
               node_repr |-> node_repr,
               edge_repr |-> edge_repr,
               graph_repr |-> graph_repr]
    /\ UNCHANGED <<enc_config, encoder, predVars, fwdVars, angleVars>>

\* the graphs of one conformation: the bonds are the nodes of the
\* bond-angle graph, the bond angles the nodes of the dihedral-angle graph
GraphTriple(atoms, bonds, angles, dihedrals) ==
    [atom_bond_graph |->
        [name |-> "atom_bond_graph", num_nodes |-> atoms,
         num_edges |-> bonds],
     bond_angle_graph |->
        [name |-> "bond_angle_graph", num_nodes |-> bonds,
         num_edges |-> angles],
     dihes_angle_graph |->
        [name |-> "dihes_angle_graph", num_nodes |-> angles,
         num_edges |-> dihedrals]]

NoGraphs == GraphTriple(0, 0, 0, 0)

\* the configurations GeoGNNModel is called with; a value under a key the
\* mapping does not hold is never read
EncConfigs ==
    {[keys |-> ks,
      embed_dim |-> (IF "embed_dim" \in ks THEN e ELSE 0),
      dropout_rate |-> (IF "dropout_rate" \in ks THEN 50 ELSE 0),
      layer_num |-> (IF "layer_num" \in ks THEN n ELSE 0),
      readout |-> (IF "readout" \in ks THEN r ELSE "")] :
        ks \in SUBSET EncKeys, e \in 1..MaxEmbed, n \in 0..MaxLayer,
        r \in {"mean", "sum"}}

-----------------------------------------------------------------------------
(* Specifications *)

Init ==
    /\ model_config = [keys |-> {}, pretrain_tasks |-> {},
                       tag_list |-> <<>>,
                       Bar_vocab |-> 0, Dar_vocab |-> 0]
    /\ pred_state = "none"
    /\ key_error = ""
    /\ attrs = {}
    /\ pretrain_tasks = {}
    /\ Bar_vocab = 0
    /\ Dar_vocab = 0
    /\ coefs = ZeroCoefs
    /\ graph_dict = <<>>
    /\ feed_dict = <<>>
    /\ return_subloss = FALSE
    /\ calls = <<>>
    /\ sub_losses = <<>>
    /\ weighted = <<>>
    /\ ret = NoRet
    /\ loss_call = NoCall
    /\ enc_config = [keys |-> {}, embed_dim |-> 0, dropout_rate |-> 0,
                     layer_num |-> 0, readout |-> ""]
    /\ encoder = NoEncoder
    /\ enc_graphs = NoGraphs
    /\ enc_out = NoEncOut

\* construction with every task set and key set, both vocabularies MaxVocab
Construct == \E cfg \in Configs({MaxVocab}) : GeoPredModel_init(cfg)

\* one forward call is observed, on a batch whose second conformer differs
\* from the first
Forward ==
    \E x \in 0..MaxFeed, flag \in BOOLEAN :
        /\ ret.arity = 0
        /\ GeoPredModel_forward(GraphDictOf(x, x + 1), FeedDictOf(x, x + 1),
                                flag)

Optimize == \E i \in 0..(CoefsLen - 1), v \in CoefVals : OptimizerStep(i, v)

\* construction of an angle model with every pair of vocabularies
ConstructAngle ==
    \E cfg \in Configs(1..MaxVocab) :
        /\ cfg.pretrain_tasks = {"Bar", "Dar"}
        /\ cfg.keys = ExactKeys({"Bar", "Dar"}) \cup {"Fg_size"}
        /\ GeoPredModel_init(cfg)

BarLoss == \E a \in Angles : GeoPredModel_get_Bar_loss(a)

DarLoss == \E a \in Angles, b \in Angles : GeoPredModel_get_Dar_loss(a, b)

EncConstruct == \E cfg \in EncConfigs : GeoGNNModel_init(cfg)

\* one forward call of the encoder is observed
EncForward ==
    \E atoms \in 1..MaxRows, bonds \in 0..MaxRows, angles \in 0..MaxRows,
       dihedrals \in 0..MaxRows :
        /\ ~enc_out.called
        /\ GeoGNNModel_forward(GraphTriple(atoms, bonds, angles, dihedrals))

NextPred == Construct \/ Forward \/ Optimize

SpecPred == Init /\ [][NextPred]_vars

NextAngle == ConstructAngle \/ BarLoss \/ DarLoss

SpecAngle == Init /\ [][NextAngle]_vars

NextEnc == EncConstruct \/ EncForward

SpecEnc == Init /\ [][NextEnc]_vars

Next ==
    \/ Construct
    \/ Forward
    \/ Optimize
    \/ ConstructAngle
    \/ BarLoss
    \/ DarLoss
    \/ EncConstruct
    \/ EncForward

Spec == Init /\ [][Next]_vars

-----------------------------------------------------------------------------
(* Vocabulary of the properties *)

Active == pretrain_tasks \cap Tags

Called == ret.arity # 0

TaskIndex == [t \in Tags |-> CHOOSE i \in 1..Len(TaskOrder) : TaskOrder[i] = t]

\* the number of tasks of a set that precede a task in TaskOrder
Position(t, tasks) ==
    Cardinality({u \in tasks \cap Tags : TaskIndex[u] < TaskIndex[t]})

\* the entry of an ordered mapping or of the weighting log under a name
Entry(seq, name) == CHOOSE e \in Range(seq) : e.name = name

Names(seq) == {seq[i].name : i \in 1..Len(seq)}

\* the evaluations of one task, in the order they ran
CallsOf(cs, tag) == SelectSeq(cs, LAMBDA c : c.task = tag)

\* the view a representation was computed from
IsAugmented(name) == EncoderRuns[RunOf[name]].graphs[1] \in ConfGraphKeys

IsMasked(name) == EncoderRuns[RunOf[name]].graphs[1] \in MaskedGraphKeys

\* forward of the head built without task t, on the same batch and with
\* the same coefficient values
Without(t) == ForwardResult(pretrain_tasks \ {t}, coefs, graph_dict, feed_dict)

-----------------------------------------------------------------------------
(* C1.  The total loss is the exact sum of the weighted terms of the active
   tasks.  As claimed: removing one task from pretrain_tasks leaves the
   weighted term of every other active task unchanged, for the same inputs,
   sub-losses and coefs values. *)
C1_TermsUnchanged ==
    Called =>
        /\ Names(weighted) = {LossName(t) : t \in Active}
        /\ ret.loss = SumSeq([i \in 1..Len(weighted) |-> weighted[i].term])
        /\ \A t \in Active :
              /\ Names(Without(t).weighted)
                    = {LossName(u) : u \in Active \ {t}}
              /\ \A u \in Active \ {t} :
                    Entry(Without(t).weighted, LossName(u)).term
                        = Entry(weighted, LossName(u)).term

(* C1 as the code has it: the total loss is the exact sum of the weighted
   terms of the active tasks; removing a task removes its term and its
   sub-loss, leaves every other sub-loss unchanged, leaves the term of every
   task before it in the order unchanged, and computes the term of every
   task after it with the coefficient of the next lower index. *)
C1_TermsShift ==
    Called =>
        /\ Names(weighted) = {LossName(t) : t \in Active}
        /\ ret.loss = SumSeq([i \in 1..Len(weighted) |-> weighted[i].term])
        /\ \A t \in Active :
              LET res == Without(t)
              IN  /\ Names(res.weighted) = {LossName(u) : u \in Active \ {t}}
                  /\ Names(res.sub_losses) = Names(res.weighted)
                  /\ res.loss = SumSeq([i \in 1..Len(res.weighted) |->
                                            res.weighted[i].term])
                  /\ \A u \in Active \ {t} :
                        LET old == Entry(weighted, LossName(u))
                            new == Entry(res.weighted, LossName(u))
                            sub == Entry(sub_losses, LossName(u)).value
                        IN  /\ Entry(res.sub_losses, LossName(u)).value = sub
                            /\ TaskIndex[u] < TaskIndex[t] =>
                                  /\ new.index = old.index
                                  /\ new.term = old.term
                            /\ TaskIndex[u] > TaskIndex[t] =>
                                  /\ new.index = old.index - 1
                                  /\ new.term
                                       = (ExpMilli(-2 * coefs[old.index]) \div 2)
                                           * sub
                                         + LogMilli(ExpMilli(coefs[old.index])
                                                      + 1000)

\* a forward with three active tasks and unequal coefficients
C1_Witness ==
    /\ Called
    /\ Cardinality(Active) >= 3
    /\ \E i \in 1..(Len(weighted) - 1) : coefs[i] # coefs[i + 1]
    /\ \E i \in 1..Len(sub_losses) : sub_losses[i].value > 0

-----------------------------------------------------------------------------
\* the attributes that belong to the head of one task
TaskAttrs(tag) ==
    CASE tag = "Cm" -> {"Cm_linear", "Cm_loss"}
      [] tag = "Fg" -> {"Fg_linear", "Fg_loss"}
      [] tag = "Bar" -> {"Bar_mlp_1", "Bar_mlp_2", "Bar_loss"}
      [] tag = "Dar" -> {"Dar_mlp1", "Dar_mlp2", "Dar_loss", "Dar_loss_extra"}
      [] tag = "Blr" -> {"Blr_mlp", "Blr_loss"}
      [] tag = "Adc" -> {"Adc_mlp", "Adc_loss"}
      [] tag = "Cl" -> {"Cl_linear", "Cl_loss"}

(* C2.  A model_config that holds hidden_size, dropout_rate, act,
   pretrain_tasks and only the fields of the active tasks constructs without
   a key error, and no head of an inactive task is built. *)
C2_OnlyActiveFields ==
    (/\ pred_state # "none"
     /\ model_config.keys = ExactKeys(model_config.pretrain_tasks))
    => /\ pred_state = "ok"
       /\ key_error = ""
       /\ attrs = UNION {TaskAttrs(t) : t \in model_config.pretrain_tasks}

-----------------------------------------------------------------------------
(* C3.  forward with return_subloss=True returns (total_loss, sub_losses,
   coefs): the keys of sub_losses are exactly tag_loss for the active tags,
   coefs has length 8, and with n active tasks exactly the coefficient
   indices 0..n-1 are read (for pretrain_tasks = {Blr}: the one key Blr_loss
   and the one index 0).  With return_subloss=False only total_loss is
   returned. *)
C3_ReturnShape ==
    Called =>
        /\ ret.loss = SumSeq([i \in 1..Len(weighted) |-> weighted[i].term])
        /\ Len(sub_losses) = Cardinality(Active)
        /\ Names(sub_losses) = {LossName(t) : t \in Active}
        /\ {weighted[k].index : k \in 1..Len(weighted)}
              = 0..(Cardinality(Active) - 1)
        /\ return_subloss =>
              /\ ret.arity = 3
              /\ ret.sub_losses = sub_losses
              /\ ret.coefs = coefs
              /\ Len(ret.coefs) = 8
        /\ ~return_subloss =>
              /\ ret.arity = 1
              /\ ret.sub_losses = <<>>
              /\ ret.coefs = <<>>
        /\ pretrain_tasks = {"Blr"} =>
              /\ Names(sub_losses) = {"Blr_loss"}
              /\ {weighted[k].index : k \in 1..Len(weighted)} = {0}

\* both kinds of call have returned for the head that has only Blr
C3_Witness ==
    /\ Called
    /\ pretrain_tasks = {"Blr"}
    /\ ~return_subloss
    /\ ret.arity = 1

-----------------------------------------------------------------------------
(* C4.  For each active task other than Cl the sub-loss is the sum of
   exactly four evaluations of the task's loss function, one on each of the
   unmasked canonical, masked canonical, unmasked augmented and masked
   augmented representation (node representations, graph ones for Fg). *)
C4_FourEvaluations ==
    Called =>
        \A t \in Active \ {"Cl"} :
            LET cs == CallsOf(calls, t)
            IN  /\ Len(cs) = 4
                /\ \A i \in 1..Len(cs) :
                      /\ cs[i].fn = "_get_" \o t \o "_loss"
                      /\ Len(cs[i].reprs) = 1
                      /\ OutOf[cs[i].reprs[1]] = (IF t = "Fg" THEN 3 ELSE 1)
                /\ {<<IsAugmented(cs[i].reprs[1]), IsMasked(cs[i].reprs[1])>> :
                       i \in 1..Len(cs)} = BOOLEAN \X BOOLEAN
                /\ Entry(sub_losses, LossName(t)).value
                      = SumSeq([i \in 1..Len(cs) |-> cs[i].value])

C4_Witness ==
    /\ Called
    /\ {"Fg", "Bar", "Dar"} \subseteq Active
    /\ Entry(sub_losses, "Bar_loss").value > 0

-----------------------------------------------------------------------------
(* C5.  As claimed: the two _get_Cl_loss evaluations that are summed use
   the same two representations, the unmasked _conf_cl_1 graph
   representation and the masked canonical graph representation, with the
   argument order swapped. *)
C5_SamePairSwapped ==
    (Called /\ "Cl" \in Active) =>
        LET cs == CallsOf(calls, "Cl")
        IN  /\ Len(cs) = 2
            /\ Range(cs[1].reprs)
                  = {"graph_repr_conf_cl_1", "masked_graph_repr"}
            /\ cs[2].reprs = <<cs[1].reprs[2], cs[1].reprs[1]>>

(* C5 as the code has it: the Cl sub-loss is the sum of two _get_Cl_loss
   evaluations, each of an unmasked graph representation (first argument)
   against the masked graph representation of the other view (second
   argument): unmasked _conf_cl_1 against masked canonical, then unmasked
   canonical against masked _conf_cl_1.  The four graph representations
   are used once each. *)
C5_CrossViews ==
    (Called /\ "Cl" \in Active) =>
        LET cs == CallsOf(calls, "Cl")
        IN  /\ Len(cs) = 2
            /\ \A i \in 1..Len(cs) :
                  /\ cs[i].fn = "_get_Cl_loss"
                  /\ Len(cs[i].reprs) = 2
                  /\ OutOf[cs[i].reprs[1]] = 3
                  /\ OutOf[cs[i].reprs[2]] = 3
                  /\ ~IsMasked(cs[i].reprs[1])
                  /\ IsMasked(cs[i].reprs[2])
                  /\ IsAugmented(cs[i].reprs[1]) # IsAugmented(cs[i].reprs[2])
            /\ IsAugmented(cs[1].reprs[1])
            /\ ~IsAugmented(cs[2].reprs[1])
            /\ Cardinality(Range(cs[1].reprs) \cup Range(cs[2].reprs)) = 4
            /\ Entry(sub_losses, "Cl_loss").value = cs[1].value + cs[2].value

C5_Witness ==
    /\ Called
    /\ "Cl" \in Active
    /\ Entry(sub_losses, "Cl_loss").value > 0

-----------------------------------------------------------------------------
(* C7.  Each active task adds exp(-2*coef[i])/2 * sub_loss[i]
   + log(exp(coef[i]) + 1) to the total loss, i its coefficient index; for
   a single active task whose coefficient is 0 the total loss is
   0.5 * sub_loss + log(2).  Amounts are in thousandths. *)
C7_Weighting ==
    Called =>
        /\ Len(weighted) = Len(sub_losses)
        /\ \A k \in 1..Len(weighted) :
              LET c == coefs[weighted[k].index + 1]
              IN  /\ weighted[k].name = sub_losses[k].name
                  /\ weighted[k].term
                        = (ExpMilli(-2 * c) \div 2) * sub_losses[k].value
                          + LogMilli(ExpMilli(c) + 1000)
        /\ (Len(sub_losses) = 1 /\ coefs[1] = 0) =>
              ret.loss = 500 * sub_losses[1].value + 693

\* a trained coefficient weighs a positive sub-loss
C7_Witness ==
    /\ Called
    /\ \E k \in 1..Len(weighted) :
          /\ coefs[weighted[k].index + 1] # 0
          /\ sub_losses[k].value > 0

-----------------------------------------------------------------------------
\* the evaluations of a task on the augmented and on the canonical pair
AugmentedCalls(cs) == SelectSeq(cs, LAMBDA c : IsAugmented(c.reprs[1]))

CanonicalCalls(cs) == SelectSeq(cs, LAMBDA c : ~IsAugmented(c.reprs[1]))

\* the augmented evaluations read the _conf_cl_1 counterparts of the keys
\* the canonical evaluations read
ReadsCounterparts(cs) ==
    /\ AugmentedCalls(cs) # <<>>
    /\ CanonicalCalls(cs) # <<>>
    /\ \A i \in 1..Len(CanonicalCalls(cs)) :
          Range(CanonicalCalls(cs)[i].keys) \cap ConfFeedKeys = {}
    /\ \A i \in 1..Len(AugmentedCalls(cs)) :
          /\ Range(AugmentedCalls(cs)[i].keys) \subseteq ConfFeedKeys
          /\ AugmentedCalls(cs)[i].keys = Conf(CanonicalCalls(cs)[1].keys)

(* C8.  As claimed: for every active task the augmented-pair evaluations
   take their index and label tensors from the _conf_cl_1 keys and the
   canonical-pair evaluations from the unsuffixed keys, never the same key
   for both. *)
C8_EveryTaskCounterparts ==
    Called => \A t \in Active : ReadsCounterparts(CallsOf(calls, t))

(* C8 as the code has it: this holds for Cm, Bar, Dar, Blr and Adc.  The
   four Fg evaluations all read Fg_morgan, Fg_daylight and Fg_maccs, and
   the two Cl evaluations both read fp_score and rms: these five keys have
   no _conf_cl_1 counterpart that forward reads. *)
C8_GeometryTaskCounterparts ==
    Called =>
        /\ \A t \in Active \ {"Fg", "Cl"} : ReadsCounterparts(CallsOf(calls, t))
        /\ \A t \in Active \cap {"Fg", "Cl"} :
              \A i \in 1..Len(CallsOf(calls, t)) :
                  /\ CallsOf(calls, t)[i].keys
                        = (IF t = "Fg"
                           THEN <<"Fg_morgan", "Fg_daylight", "Fg_maccs">>
                           ELSE <<"fp_score", "rms">>)
                  /\ Range(CallsOf(calls, t)[i].keys) \cap ConfFeedKeys = {}

C8_Witness ==
    /\ Called
    /\ {"Fg", "Blr", "Cl"} \subseteq Active
    /\ feed_dict["Bl_bond_length"] # feed_dict["Bl_bond_length_conf_cl_1"]

-----------------------------------------------------------------------------
\* the greatest integer that is at most num / den, den positive
Floor(num, den) == num \div den

AngleCalled == loss_call.fn # ""

VocabOf(call) == IF call.fn = "_get_Bar_loss" THEN Bar_vocab ELSE Dar_vocab

(* C6.  As claimed: for every angle a the bin id is floor(a/pi * V), in
   _get_Bar_loss with V = Bar_vocab and in both passes of _get_Dar_loss
   with V = Dar_vocab. *)
C6_FloorEveryAngle ==
    AngleCalled =>
        \A i \in 1..Len(loss_call.ids) :
            loss_call.ids[i]
                = Floor(loss_call.angles[i] * VocabOf(loss_call), AngleDen)

(* C6 as the code has it: the bin id is a/pi * V with its fraction cut
   off: floor(a/pi * V) for a >= 0, so 0 for a = 0 and V for a = pi, and
   -floor(-a/pi * V), the ceiling, for a < 0; in _get_Bar_loss and in both
   passes of _get_Dar_loss. *)
C6_TruncatedBin ==
    AngleCalled =>
        /\ Len(loss_call.ids) = Len(loss_call.angles)
        /\ Len(loss_call.ids)
              = (IF loss_call.fn = "_get_Bar_loss" THEN 1 ELSE 2)
        /\ \A i \in 1..Len(loss_call.ids) :
              LET a == loss_call.angles[i]
                  V == VocabOf(loss_call)
              IN  /\ a >= 0 => loss_call.ids[i] = Floor(a * V, AngleDen)
                  /\ a < 0 => loss_call.ids[i] = -Floor((-a) * V, AngleDen)
                  /\ a = 0 => loss_call.ids[i] = 0
                  /\ a = AngleDen => loss_call.ids[i] = V

\* a Dar evaluation of the angle pi and of a negative angle between two
\* bin boundaries
C6_Witness ==
    /\ loss_call.fn = "_get_Dar_loss"
    /\ loss_call.angles[1] = AngleDen
    /\ loss_call.angles[2] < 0
    /\ (loss_call.angles[2] * Dar_vocab) % AngleDen # 0

-----------------------------------------------------------------------------
EncCalled == enc_out.called

\* embed_dim as configured: the entry of model_config, 32 without one
ConfiguredEmbedDim ==
    IF "embed_dim" \in enc_config.keys THEN enc_config.embed_dim ELSE 32

SameShape(a, b) == a.rows = b.rows /\ a.width = b.width

(* C9.  For every layer_num >= 0 and every embed_dim, node_repr, edge_repr
   and graph_repr have the configured width embed_dim, and every
   GeoGNNBlock returns node and edge states of the width and row count of
   its inputs, every residual add having operands of one shape. *)
C9_EmbedDimKept ==
    EncCalled =>
        /\ enc_out.node_repr.width = ConfiguredEmbedDim
        /\ enc_out.edge_repr.width = ConfiguredEmbedDim
        /\ enc_out.graph_repr.width = ConfiguredEmbedDim
        /\ enc_out.node_repr.rows = enc_graphs.atom_bond_graph.num_nodes
        /\ enc_out.edge_repr.rows = enc_graphs.atom_bond_graph.num_edges
        /\ Len(enc_out.block_calls) = 3 * encoder.layer_num
        /\ \A k \in 1..Len(enc_out.block_calls) :
              LET b == enc_out.block_calls[k]
              IN  /\ SameShape(b.node_out, b.call.node_hidden)
                  /\ SameShape(b.edge_out, b.call.edge_hidden)
                  /\ b.node_out.width = ConfiguredEmbedDim
                  /\ b.edge_out.width = ConfiguredEmbedDim
                  /\ b.node_out.wellformed
                  /\ b.edge_out.wellformed
        /\ enc_out.node_repr.wellformed
        /\ enc_out.edge_repr.wellformed

\* two layers or more ran on a graph with more atoms than bonds
C9_Witness ==
    /\ EncCalled
    /\ encoder.layer_num >= 2
    /\ "embed_dim" \in enc_config.keys
    /\ enc_graphs.atom_bond_graph.num_nodes
          > enc_graphs.atom_bond_graph.num_edges
    /\ Len(enc_out.block_calls) >= 6

-----------------------------------------------------------------------------
(* C10.  layer_num = 0 is permitted and runs no message-passing block:
   node_repr is the initial atom embedding and edge_repr the initial bond
   embedding plus the initial bond-length RBF embedding. *)
C10_NoLayerIdentity ==
    /\ (encoder.state # "none" /\ "layer_num" \in enc_config.keys
        /\ enc_config.layer_num = 0
        /\ Range(RequiredEncLookups) \subseteq enc_config.keys)
       => /\ encoder.state = "ok"
          /\ encoder.layer_num = 0
          /\ encoder.atom_bond_block_list = <<>>
          /\ encoder.bond_angle_block_list = <<>>
          /\ encoder.dihes_angle_list = <<>>
    /\ (EncCalled /\ encoder.layer_num = 0)
       => /\ enc_out.block_calls = <<>>
          /\ enc_out.node_repr.id
                = "init_atom_embedding(atom_bond_graph.node_feat)"
          /\ enc_out.node_repr.rows = enc_graphs.atom_bond_graph.num_nodes
          /\ enc_out.edge_repr.id
                = "(init_bond_embedding(atom_bond_graph.edge_feat)"
                  \o " + init_bond_float_rbf(atom_bond_graph.edge_feat))"
          /\ enc_out.edge_repr.rows = enc_graphs.atom_bond_graph.num_edges
          /\ enc_out.node_repr = enc_out.node_hidden_list[1]
          /\ enc_out.edge_repr = enc_out.edge_hidden_list[1]
          /\ Len(enc_out.node_hidden_list) = 1
          /\ Len(enc_out.edge_hidden_list) = 1

C10_Witness ==
    /\ EncCalled
    /\ encoder.layer_num = 0
    /\ enc_graphs.atom_bond_graph.num_edges > 0

-----------------------------------------------------------------------------
EncConstructed == encoder.state # "none"

RequiredLists ==
    {"atom_names", "bond_names", "bond_float_names",
     "bond_angle_float_names"}

\* the value of an optional entry: the configured one, or the default
Configured(key, default) ==
    IF key \in enc_config.keys THEN enc_config[key] ELSE default

(* C11.  GeoGNNModel construction raises a key error if and only if one of
   atom_names, bond_names, bond_float_names, bond_angle_float_names is
   missing from model_config, and the error names a missing list; a missing
   embed_dim, dropout_rate, layer_num or readout never fails and takes the
   default 32, 0.2 (20 hundredths), 8 and 'mean'. *)
C11_KeyErrorIffRequiredMissing ==
    EncConstructed =>
        /\ encoder.state \in {"ok", "KeyError"}
        /\ (encoder.state = "KeyError")
              <=> ~(RequiredLists \subseteq enc_config.keys)
        /\ encoder.state = "KeyError"
              => encoder.key_error \in RequiredLists \ enc_config.keys
        /\ encoder.state = "ok"
              => /\ encoder.key_error = ""
                 /\ encoder.embed_dim = Configured("embed_dim", 32)
                 /\ encoder.dropout_rate = Configured("dropout_rate", 20)
                 /\ encoder.layer_num = Configured("layer_num", 8)
                 /\ encoder.readout = Configured("readout", "mean")

\* the construction failed on bond_angle_float_names alone, with every
\* optional entry absent as well
C11_Witness ==
    /\ encoder.state = "KeyError"
    /\ encoder.key_error = "bond_angle_float_names"
    /\ enc_config.keys
          = {"atom_names", "bond_names", "bond_float_names"}

-----------------------------------------------------------------------------
\* the expression `layer_list[l](feat)`
LayerOutput(list, l, feat) ==
    list \o "[" \o ToString(l) \o "](" \o feat \o ")"

Sum(x, y) == "(" \o x \o " + " \o y \o ")"

\* the three block calls of layer l, in the order they were made
CallsOfLayer(l) ==
    [k \in 1..3 |-> enc_out.block_calls[3 * l + k]]

LayerOrder(l) ==
    LET c == CallsOfLayer(l)
    IN  /\ c[1].call.list = "atom_bond_block_list"
        /\ c[2].call.list = "bond_angle_block_list"
        /\ c[3].call.list = "dihes_angle_list"
        /\ \A k \in 1..3 : c[k].call.layer_id = l
        /\ c[1].call.graph = "atom_bond_graph"
        /\ c[2].call.graph = "bond_angle_graph"
        /\ c[3].call.graph = "dihes_angle_graph"

LayerInputs(l) ==
    LET c == CallsOfLayer(l)
    IN  /\ c[1].call.node_hidden = enc_out.node_hidden_list[l + 1]
        /\ c[1].call.edge_hidden = enc_out.edge_hidden_list[l + 1]
        /\ c[2].call.node_hidden.id
              = Sum(Sum(LayerOutput("bond_embedding_list", l,
                                    "atom_bond_graph.edge_feat"),
                        LayerOutput("bond_float_rbf_list", l,
                                    "atom_bond_graph.edge_feat")),
                    c[1].edge_out.id)
        /\ c[3].call.node_hidden.id
              = Sum(LayerOutput("bond_angle_float_rbf_list", l,
                                "bond_angle_graph.edge_feat"),
                    c[2].edge_out.id)

LayerAppends(l) ==
    LET c == CallsOfLayer(l)
    IN  /\ enc_out.node_hidden_list[l + 2] = c[1].node_out
        /\ enc_out.edge_hidden_list[l + 2] = c[2].node_out

(* C12.  In every layer l of GeoGNNModel.forward the blocks run in the
   order atom-bond, bond-angle, dihedral; the atom-bond block reads the
   layer-l entries of the node and edge hidden-state lists; the node input
   of the bond-angle block is the layer's re-embedded bond features plus the
   edge output of the atom-bond block of that layer; the node input of the
   dihedral block is the layer's re-embedded bond-angle features plus the
   edge output of the bond-angle block of that layer; node_repr and
   edge_repr are the entries the last layer appended. *)
C12_LayerDataflow ==
    (EncCalled /\ encoder.layer_num >= 1) =>
        /\ Len(enc_out.block_calls) = 3 * encoder.layer_num
        /\ Len(enc_out.node_hidden_list) = encoder.layer_num + 1
        /\ Len(enc_out.edge_hidden_list) = encoder.layer_num + 1
        /\ \A l \in 0..(encoder.layer_num - 1) :
              LayerOrder(l) /\ LayerInputs(l) /\ LayerAppends(l)
        /\ enc_out.node_repr
              = enc_out.block_calls[3 * encoder.layer_num - 2].node_out
        /\ enc_out.edge_repr
              = enc_out.block_calls[3 * encoder.layer_num - 1].node_out
        /\ enc_out.node_repr # enc_out.node_hidden_list[1]
        /\ enc_out.edge_repr # enc_out.edge_hidden_list[1]

\* two layers ran, so the second read what the first appended
C12_Witness ==
    /\ EncCalled
    /\ encoder.layer_num = 2
    /\ Len(enc_out.block_calls) = 6
    /\ enc_out.block_calls[4].call.node_hidden
          = enc_out.block_calls[1].node_out
    /\ enc_graphs.bond_angle_graph.num_edges > 0

-----------------------------------------------------------------------------
\* the order of the task tests
FixedOrder == <<"Cm", "Fg", "Bar", "Dar", "Blr", "Adc", "Cl">>

PlaceOf(t) == CHOOSE i \in 1..7 : FixedOrder[i] = t

\* the active tasks that precede t in the fixed order
ActiveBefore(t) == {u \in Active : PlaceOf(u) < PlaceOf(t)}

\* the task whose sub-loss an entry of the weighting loop weights
TaskOf(entry) == CHOOSE t \in Tags : LossName(t) = entry.name

(* C13.  The coefficient index used for an active task in forward equals
   the number of active tasks that precede it in the order Cm, Fg, Bar,
   Dar, Blr, Adc, Cl, whatever the order of the tags in pretrain_tasks; the
   indices of one call are pairwise distinct and at most 6, so inside the
   coefs parameter of length 8. *)
C13_IndexByFixedOrder ==
    Called =>
        /\ {weighted[k].name : k \in 1..Len(weighted)}
              = {LossName(t) : t \in Active}
        /\ \A k \in 1..Len(weighted) :
              /\ weighted[k].index
                    = Cardinality(ActiveBefore(TaskOf(weighted[k])))
              /\ weighted[k].index \in 0..6
              /\ weighted[k].index + 1 \in DOMAIN coefs
        /\ \A j, k \in 1..Len(weighted) :
              j # k => weighted[j].index # weighted[k].index
        /\ Len(coefs) = 8

\* a forward call of a model whose tags were listed against the fixed
\* order, the last entry of the list being weighted with index 0
C13_Witness ==
    /\ Called
    /\ Len(model_config.tag_list) >= 3
    /\ model_config.tag_list # InOrder(Active)
    /\ weighted[1].name
          = LossName(model_config.tag_list[Len(model_config.tag_list)])
    /\ weighted[1].index = 0

-----------------------------------------------------------------------------
\* the angle a = angle * pi / AngleDen lies in [0, pi]
InZeroPi(angle) == 0 <= angle /\ angle <= AngleDen

(* C14.  For every angle a in [0, pi] the bin id of _get_Bar_loss and of
   both passes of _get_Dar_loss is a class index of the head, whose output
   size is vocab + 2: it lies in 0..vocab+1.  Outside [0, pi] the bin id is
   not guarded: for a <= -pi/vocab it is negative and for
   a >= pi*(vocab+2)/vocab it is vocab+2 or more, so no class index. *)
C14_BinIsClassIndex ==
    AngleCalled =>
        \A i \in 1..Len(loss_call.ids) :
            LET a == loss_call.angles[i]
                V == VocabOf(loss_call)
                id == loss_call.ids[i]
                n == loss_call.classes[i]
            IN  /\ n = V + 2
                /\ InZeroPi(a) => /\ id \in ClassIndices(n)
                                  /\ id \in 0..(V + 1)
                /\ a * V <= -AngleDen
                      => id < 0 /\ id \notin ClassIndices(n)
                /\ a * V >= AngleDen * (V + 2)
                      => id >= V + 2 /\ id \notin ClassIndices(n)

\* a Dar evaluation whose first angle is negative with a negative bin and
\* whose extra angle lies above pi with a bin beyond the last class
C14_Witness ==
    /\ loss_call.fn = "_get_Dar_loss"
    /\ loss_call.angles[1] < 0
    /\ loss_call.ids[1] < 0
    /\ loss_call.angles[2] > AngleDen
    /\ loss_call.ids[2] > Dar_vocab + 1

====
